---------------------------- MODULE Spec2Model ----------------------------
(***************************************************************************)
(* Model of status-display.ino: the serial line assembler (read_serial),   *)
(* the command interpreter (parse_command) and the servo power controller  *)
(* (servo_wakeup, servo_wakeup_timeout, periodic_wakeup) driven by loop(). *)
(*                                                                         *)
(* Characters are one-character strings, C strings are sequences of them,  *)
(* and a line printed on the serial port is a sequence of text pieces.     *)
(***************************************************************************)
EXTENDS Integers, Sequences, FiniteSets, TLC

(***************************************************************************)
(* Program constants (#define lines of the sketch).                        *)
(***************************************************************************)
NUM_SERVOS == 4
SERVO_MIN == 1
SERVO_MAX == 179
SERIAL_BUFFER_SIZE == 80
WAKEUP_MILLIS == 2100
PERIODIC_WAKEUP_MILLIS == 600000
\* delay(750) inside show_initial(): the clock value when setup() returns.
SETUP_DELAY == 750
LONG_MAX == 2147483647

(***************************************************************************)
(* Bounds of the model.                                                    *)
(***************************************************************************)
\* chunks of bytes the client sends in a behaviour of SpecLine
MaxSends == 2
\* clock advances in a behaviour of SpecLine
MaxLineTicks == 1
\* command lines the client sends in a behaviour of Spec
MaxCmds == 1
\* clock advances in a behaviour of Spec
MaxTicks == 3
WrapLead == 1000

NUL == "NUL"
NL == "\n"
SP == " "

VARIABLES
    buffer,                \* char buffer[SERIAL_BUFFER_SIZE]
    buffer_offset,         \* byte buffer_offset
    overflow_mode,         \* boolean overflow_mode
    wakeup,                \* boolean wakeup
    last_wakeup,           \* long last_wakeup
    last_periodic_wakeup,  \* static long last_periodic_wakeup
    servos,                \* position last written to each Servo
    attached,              \* whether each Servo is attached
    enable,                \* level of ENABLE_PIN (TRUE = HIGH)
    now,                   \* millis()
    rx,                    \* bytes waiting in the serial receiver
    out,                   \* lines printed by the last step of loop()
    line,                  \* C string handed to parse_command by the last read_serial()
    reply,                 \* what that parse_command returned; << >> when it was not called
    recv,                  \* what was read from the port (see Note)
    pc,                    \* the call loop() makes next
    sends,                 \* chunks sent so far
    ticks                  \* clock advances so far

vars == << buffer, buffer_offset, overflow_mode, wakeup, last_wakeup,
           last_periodic_wakeup, servos, attached, enable, now, rx, out,
           line, reply, recv, pc, sends, ticks >>

Slots == 0 .. (NUM_SERVOS - 1)

(***************************************************************************)
(* Integer helpers: C division truncates toward zero.                      *)
(***************************************************************************)
TruncDiv(a, b) ==
    IF (a >= 0) = (b > 0)
    THEN (IF a >= 0 THEN a ELSE -a) \div (IF b > 0 THEN b ELSE -b)
    ELSE -((IF a >= 0 THEN a ELSE -a) \div (IF b > 0 THEN b ELSE -b))

\* Arduino map(): (x - in_min) * (out_max - out_min) / (in_max - in_min) + out_min
map(x, in_min, in_max, out_min, out_max) ==
    TruncDiv((x - in_min) * (out_max - out_min), in_max - in_min) + out_min

MAP_SERVO(x) == map(x, 0, 100, SERVO_MAX, SERVO_MIN)

MAP_SERVO_REVERSE(x) == map(x, SERVO_MAX, SERVO_MIN, 0, 100)

(***************************************************************************)
(* Text helpers: atoi() on the buffer and printf's %d.                     *)
(***************************************************************************)
DigitChars == << "0", "1", "2", "3", "4", "5", "6", "7", "8", "9" >>

IsDigit(c) == \E i \in 1 .. 10 : DigitChars[i] = c

DigitVal(c) == (CHOOSE i \in 1 .. 10 : DigitChars[i] = c) - 1

\* The character at s[i].  Every scan of the model stops inside the buffer: no
\* input in Chunks or Commands leaves a space or a digit in its last byte.
CharAt(buf, i) == IF i < SERIAL_BUFFER_SIZE THEN buf[i] ELSE NUL

RECURSIVE SkipSpace(_, _)
SkipSpace(buf, i) ==
    IF CharAt(buf, i) \in {SP, NL} THEN SkipSpace(buf, i + 1) ELSE i

RECURSIVE AtoiDigits(_, _, _)
AtoiDigits(buf, i, acc) ==
    IF IsDigit(CharAt(buf, i))
    THEN AtoiDigits(buf, i + 1, acc * 10 + DigitVal(CharAt(buf, i)))
    ELSE acc

\* atoi(s + i): leading white space, an optional sign, then decimal digits.
atoi(buf, i) ==
    LET j == SkipSpace(buf, i)
    IN  IF CharAt(buf, j) = "-" THEN -AtoiDigits(buf, j + 1, 0)
        ELSE IF CharAt(buf, j) = "+" THEN AtoiDigits(buf, j + 1, 0)
        ELSE AtoiDigits(buf, j, 0)

RECURSIVE FormatNat(_)
FormatNat(n) ==
    IF n < 10 THEN << DigitChars[n + 1] >>
    ELSE FormatNat(n \div 10) \o << DigitChars[(n % 10) + 1] >>

\* printf("%d", n)
FormatInt(n) == IF n < 0 THEN << "-" >> \o FormatNat(-n) ELSE FormatNat(n)

\* The C string that starts at buf[i].
RECURSIVE CStr(_, _)
CStr(buf, i) ==
    IF CharAt(buf, i) = NUL THEN << >> ELSE << buf[i] >> \o CStr(buf, i + 1)


(***************************************************************************)
(* The servo bank and its power state, as one record m:                    *)
(*   servos, attached, enable, wakeup, last_wakeup, out.                   *)
(* Servo::write() is modelled as storing its argument and Servo::read() as *)
(* returning it; t is the value millis() returns during the call.          *)
(***************************************************************************)
\* Mutant: a wakeup of servos that are awake does not restart the window.
servo_wakeup_no_restart(m, t) ==
    [m EXCEPT !.enable = TRUE,
              !.last_wakeup = IF m.wakeup THEN @ ELSE t,
              !.wakeup = TRUE,
              !.attached = [i \in Slots |-> TRUE],
              !.out = Append(@, << "110 SERVO ON" >>)]

servo_wakeup(m, t) ==
    [m EXCEPT !.enable = TRUE,
              !.last_wakeup = t,
              !.wakeup = TRUE,
              !.attached = [i \in Slots |-> TRUE],
              !.out = Append(@, << "110 SERVO ON" >>)]

(***************************************************************************)
(* Time.  millis() is an unsigned long that wraps at 2^32; the program     *)
(* keeps its value in a long, so a timestamp is the 32 bit two's           *)
(* complement reading of the clock: it runs from 0 up to LONG_MAX, jumps   *)
(* to LONG_MIN and runs up to -1, and the clock's own wrap is the step     *)
(* from -1 to 0.                                                           *)
(***************************************************************************)
LONG_MIN == (-LONG_MAX) - 1

\* (long) millis(), d milliseconds after it was t
Later(t, d) ==
    IF t > LONG_MAX - d
    THEN LONG_MIN + ((d - (LONG_MAX - t)) - 1)
    ELSE t + d

\* a - b is outside long: the subtraction is a signed overflow, which is
\* undefined behaviour
SubOverflows(a, b) ==
    \/ b < 0 /\ a > LONG_MAX + b
    \/ b > 0 /\ a < LONG_MIN + b

\* Mutant: the servos are switched off when exactly the window has elapsed.
WakeupExpired_inclusive(t, last) ==
    IF SubOverflows(t, last) THEN BOOLEAN ELSE {(t - last) >= WAKEUP_MILLIS}

\* The values (now - last_wakeup) > WAKEUP_MILLIS can have: any, when the
\* subtraction overflows.
WakeupExpired(t, last) ==
    IF SubOverflows(t, last) THEN BOOLEAN ELSE {(t - last) > WAKEUP_MILLIS}

\* Mutant: the enable pin stays high when the servos are detached.
servo_wakeup_timeout_powered(m, expired) ==
    IF m.wakeup /\ expired
    THEN [m EXCEPT !.wakeup = FALSE,
                   !.attached = [i \in Slots |-> FALSE],
                   !.out = Append(@, << "111 SERVO OFF" >>)]
    ELSE m

\* Mutant: the servos stay attached when the power is switched off.
servo_wakeup_timeout_attached(m, expired) ==
    IF m.wakeup /\ expired
    THEN [m EXCEPT !.enable = FALSE,
                   !.wakeup = FALSE,
                   !.out = Append(@, << "111 SERVO OFF" >>)]
    ELSE m

\* expired is the value of (now - last_wakeup) > WAKEUP_MILLIS
servo_wakeup_timeout(m, expired) ==
    IF m.wakeup /\ expired
    THEN [m EXCEPT !.enable = FALSE,
                   !.wakeup = FALSE,
                   !.attached = [i \in Slots |-> FALSE],
                   !.out = Append(@, << "111 SERVO OFF" >>)]
    ELSE m

show_help(m) ==
    [m EXCEPT !.out = @ \o
        << << "101 s (status)  - show status of all servos" >>,
           << "101 a <n>       - set all servos to <n>" >>,
           << "101 c (clear)   - set all servos to 0" >>,
           << "101 w (wakeup)  - wake up the servos for a few seconds" >>,
           << "101 h (help)    - show this text" >>,
           << "101 <n> <v>     - set servo n to value v (0..100)" >> >>]

StatusLine(m, i) ==
    << "102 " >> \o FormatInt(i) \o << ":" >> \o FormatInt(MAP_SERVO_REVERSE(m.servos[i]))

\* Mutant: the slots are reported from the last to the first.
show_status_reversed(m) ==
    [m EXCEPT !.out = @ \o [k \in 1 .. NUM_SERVOS |-> StatusLine(m, NUM_SERVOS - k)]]

show_status(m) ==
    [m EXCEPT !.out = @ \o [k \in 1 .. NUM_SERVOS |-> StatusLine(m, k - 1)]]

\* Mutant: a refused value still wakes the servos.
set_all_wakes(m, value, t) ==
    IF value > 100
    THEN servo_wakeup(m, t)
    ELSE servo_wakeup([m EXCEPT !.servos = [i \in Slots |-> MAP_SERVO(value)]], t)

\* Mutant: 100 itself is refused.
set_all_below_100(m, value, t) ==
    IF value >= 100
    THEN m
    ELSE servo_wakeup([m EXCEPT !.servos = [i \in Slots |-> MAP_SERVO(value)]], t)

set_all(m, value, t) ==
    IF value > 100
    THEN m
    ELSE servo_wakeup([m EXCEPT !.servos = [i \in Slots |-> MAP_SERVO(value)]], t)

(***************************************************************************)
(* parse_command(s): the result is the new bank, the buffer (the space     *)
(* that separates the two numbers is overwritten) and the returned text.   *)
(***************************************************************************)
\* for (byte b = 0; b < SERIAL_BUFFER_SIZE; b++) if (s[b] == ' ') ...
\* SERIAL_BUFFER_SIZE stands for val == NULL.
FindSpace(buf) ==
    IF \E b \in 0 .. (SERIAL_BUFFER_SIZE - 1) : buf[b] = SP
    THEN CHOOSE b \in 0 .. (SERIAL_BUFFER_SIZE - 1) :
            /\ buf[b] = SP
            /\ \A k \in 0 .. (b - 1) : buf[k] # SP
    ELSE SERIAL_BUFFER_SIZE

\* Mutant: the upper limit is off by one.
ServoOutOfRange_off_by_one(servo) == (servo < 0) \/ (servo > NUM_SERVOS)

ServoOutOfRange(servo) == (servo < 0) \/ (servo > (NUM_SERVOS - 1))

\* Mutant: only the upper limit is checked, as in set_all().
ValueOutOfRange_upper_only(value) == value > 100

ValueOutOfRange(value) == (value < 0) \/ (value > 100)

\* Mutant: the two numbers are printed in the wrong order.
OkReply_swapped(servo, value) ==
    << "200 OK - " >> \o FormatInt(value) \o << ":" >> \o FormatInt(servo)

OkReply(servo, value) ==
    << "200 OK - " >> \o FormatInt(servo) \o << ":" >> \o FormatInt(value)

SetServo(m, buf, t) ==
    LET b == FindSpace(buf)
        cut == IF b < SERIAL_BUFFER_SIZE THEN [buf EXCEPT ![b] = NUL] ELSE buf
        servo == atoi(cut, 0)
        value == atoi(cut, b + 1)
    IN  IF b = SERIAL_BUFFER_SIZE
        THEN [m |-> m, buf |-> buf, reply |-> << "502 SYNTAX ERROR" >>]
        ELSE IF ServoOutOfRange(servo)
        THEN [m |-> m, buf |-> cut, reply |-> << "503 SERVO OUT OF RANGE" >>]
        ELSE IF ValueOutOfRange(value)
        THEN [m |-> m, buf |-> cut, reply |-> << "504 VALUE OUT OF RANGE" >>]
        ELSE [m |-> servo_wakeup([m EXCEPT !.servos[servo] = MAP_SERVO(value)], t),
              buf |-> cut,
              reply |-> OkReply(servo, value)]

parse_command(m, buf, t) ==
    CASE buf[0] = "w" ->
            [m |-> servo_wakeup(m, t), buf |-> buf, reply |-> << "206 WAKEUP OK" >>]
      [] buf[0] = "h" ->
            [m |-> show_help(m), buf |-> buf, reply |-> << "201 OK" >>]
      [] buf[0] = "s" ->
            [m |-> show_status(m), buf |-> buf, reply |-> << "201 OK" >>]
      [] buf[0] = "c" ->
            [m |-> set_all(m, 0, t), buf |-> buf,
             reply |-> << "203 OK - ALL SERVOS CLEARED" >>]
      [] buf[0] = "a" ->
            [m |-> set_all(m, atoi(buf, 1), t), buf |-> buf,
             reply |-> << "204 OK - ALL SERVOS SET" >>]
      [] OTHER -> SetServo(m, buf, t)

(***************************************************************************)
(* The while loop of read_serial().  A scan state is                       *)
(*   buf, off, ovf : buffer, buffer_offset, overflow_mode                  *)
(*   lc            : loop_count                                            *)
(*   rx            : bytes not read yet                                    *)
(*   recv          : the record of the variable recv                       *)
(*   ev            : how the call ends                                     *)
(*      "run"    the loop is running                                       *)
(*      "idle"   Serial.available() is 0                                   *)
(*      "resync" a newline read in overflow mode                           *)
(*      "flood"  loop_count reached SERIAL_BUFFER_SIZE in overflow mode    *)
(*      "line"   a newline read in normal mode: parse_command is called    *)
(*      "full"   buffer_offset reached SERIAL_BUFFER_SIZE                  *)
(***************************************************************************)
\* Mutant: the buffer counts as full one byte late.
BufferFull_late(off) == off = SERIAL_BUFFER_SIZE + 1

\* Mutant: the buffer counts as full one byte early.
BufferFull_early(off) == off = SERIAL_BUFFER_SIZE - 1

\* SERIAL_BUFFER_SIZE == buffer_offset, after buffer_offset++
BufferFull(off) == off = SERIAL_BUFFER_SIZE

\* loop_count == SERIAL_BUFFER_SIZE
FloodLimit(lc) == lc = SERIAL_BUFFER_SIZE

\* The record of what was read, after byte c was stored at buffer[off]:
\*   cur    : the bytes read since the last newline read
\*   done   : the bytes read between the last two newlines read
\*   resync : the last newline read ended overflow mode
\*   quiet  : bytes read in overflow mode since it began or since the last
\*            "501 OVERFLOW" (Announce resets it)
\*   top    : the highest offset a byte was ever stored at
Max(a, b) == IF a >= b THEN a ELSE b

Note(rec, c, ovf, off) ==
    IF c = NL
    THEN [cur |-> << >>, done |-> rec.cur, resync |-> ovf, quiet |-> 0,
          top |-> Max(rec.top, off)]
    ELSE [rec EXCEPT !.cur = Append(@, c),
                     !.quiet = IF ovf THEN @ + 1 ELSE @,
                     !.top = Max(@, off)]

\* Serial.println("501 OVERFLOW") was called
Announce(rec) == [rec EXCEPT !.quiet = 0]

\* One pass through the body of while (Serial.available()) { ... }
\* Mutant: the newline of a command does not end the call.
ScanByte_no_return(st) ==
    LET c == Head(st.rx)
        nx == [st EXCEPT !.buf[st.off] = c,
                         !.rx = Tail(@),
                         !.lc = IF st.ovf THEN @ + 1 ELSE @,
                         !.recv = Note(@, c, st.ovf, st.off)]
    IN  IF st.ovf /\ c = NL
        THEN [nx EXCEPT !.ovf = FALSE, !.ev = "resync"]
        ELSE IF st.ovf /\ FloodLimit(nx.lc)
        THEN [nx EXCEPT !.ev = "flood", !.recv = Announce(@)]
        ELSE IF c = NL
        THEN [nx EXCEPT !.buf[st.off] = NUL, !.off = 0]
        ELSE IF BufferFull(st.off + 1)
        THEN [nx EXCEPT !.off = 0, !.ovf = TRUE, !.ev = "full",
                        !.recv = Announce(@)]
        ELSE [nx EXCEPT !.off = st.off + 1]

\* The loop: until a return statement or until no byte is available.
ScanByte(st) ==
    LET c == Head(st.rx)
        nx == [st EXCEPT !.buf[st.off] = c,
                         !.rx = Tail(@),
                         !.lc = IF st.ovf THEN @ + 1 ELSE @,
                         !.recv = Note(@, c, st.ovf, st.off)]
    IN  IF st.ovf /\ c = NL
        THEN [nx EXCEPT !.ovf = FALSE, !.ev = "resync"]
        ELSE IF st.ovf /\ FloodLimit(nx.lc)
        THEN [nx EXCEPT !.ev = "flood", !.recv = Announce(@)]
        ELSE IF c = NL
        THEN [nx EXCEPT !.buf[st.off] = NUL, !.off = 0, !.ev = "line"]
        ELSE IF BufferFull(st.off + 1)
        THEN [nx EXCEPT !.off = 0, !.ovf = TRUE, !.ev = "full",
                        !.recv = Announce(@)]
        ELSE [nx EXCEPT !.off = st.off + 1]

\* The loop: until a return statement or until no byte is available.
RECURSIVE Scan(_)
Scan(st) ==
    IF st.ev # "run" THEN st
    ELSE IF st.rx = << >> THEN [st EXCEPT !.ev = "idle"]
    ELSE Scan(ScanByte(st))

Bank == [servos |-> servos, attached |-> attached, enable |-> enable,
         wakeup |-> wakeup, last_wakeup |-> last_wakeup, out |-> << >>]

SetBank(m) ==
    /\ servos' = m.servos
    /\ attached' = m.attached
    /\ enable' = m.enable
    /\ wakeup' = m.wakeup
    /\ last_wakeup' = m.last_wakeup
    /\ out' = m.out

Overflow501 == << "501 OVERFLOW" >>

\* read_serial(), the first call of loop()
ReadSerial ==
    /\ pc = "read_serial"
    /\ pc' = "periodic_wakeup"
    /\ LET st == Scan([buf |-> buffer, off |-> buffer_offset, ovf |-> overflow_mode,
                       lc |-> 0, rx |-> rx, recv |-> recv, ev |-> "run"])
           r == parse_command(Bank, st.buf, now)
       IN  /\ buffer_offset' = st.off
           /\ overflow_mode' = st.ovf
           /\ rx' = st.rx
           /\ recv' = st.recv
           /\ IF st.ev = "line"
              THEN /\ buffer' = r.buf
                   /\ line' = CStr(st.buf, 0)
                   /\ reply' = r.reply
                   /\ SetBank([r.m EXCEPT !.out = Append(@, r.reply)])
              ELSE /\ buffer' = st.buf
                   /\ line' = << >>
                   /\ reply' = << >>
                   /\ SetBank([Bank EXCEPT !.out =
                                IF st.ev \in {"flood", "full"}
                                THEN << Overflow501 >> ELSE << >>])
    /\ UNCHANGED << last_periodic_wakeup, now, sends, ticks >>

\* Mutant: the periodic wakeup fires when exactly the period has elapsed.
PeriodicDue_inclusive(t, last) ==
    IF SubOverflows(t, last) THEN BOOLEAN ELSE {(t - last) >= PERIODIC_WAKEUP_MILLIS}

\* The values (now - last_periodic_wakeup) > PERIODIC_WAKEUP_MILLIS can have:
\* any, when the subtraction overflows.
PeriodicDue(t, last) ==
    IF SubOverflows(t, last) THEN BOOLEAN ELSE {(t - last) > PERIODIC_WAKEUP_MILLIS}

\* periodic_wakeup(), the second call of loop()
PeriodicWakeup ==
    /\ pc = "periodic_wakeup"
    /\ pc' = "servo_wakeup_timeout"
    /\ \E due \in PeriodicDue(now, last_periodic_wakeup) :
          IF due
          THEN /\ SetBank([servo_wakeup(Bank, now) EXCEPT
                             !.out = Append(@, FormatInt(PERIODIC_WAKEUP_MILLIS))])
               /\ last_periodic_wakeup' = now
          ELSE /\ SetBank(Bank)
               /\ UNCHANGED last_periodic_wakeup
    /\ UNCHANGED << buffer, buffer_offset, overflow_mode, now, rx, line, reply,
                    recv, sends, ticks >>

\* servo_wakeup_timeout(), the third call of loop()
ServoWakeupTimeout ==
    /\ pc = "servo_wakeup_timeout"
    /\ pc' = "read_serial"
    /\ \E expired \in (IF wakeup THEN WakeupExpired(now, last_wakeup) ELSE {FALSE}) :
          SetBank(servo_wakeup_timeout(Bank, expired))
    /\ UNCHANGED << buffer, buffer_offset, overflow_mode, last_periodic_wakeup,
                    now, rx, line, reply, recv, sends, ticks >>

(***************************************************************************)
(* The environment: the client sends bytes, the clock advances.            *)
(***************************************************************************)
\* Bytes that arrive while periodic_wakeup() or servo_wakeup_timeout() run are
\* first seen by the next read_serial(), so they are delivered just before it.
Receive(chunk, max) ==
    /\ pc = "read_serial"
    /\ sends < max
    /\ sends' = sends + 1
    /\ rx' = rx \o chunk
    /\ UNCHANGED << buffer, buffer_offset, overflow_mode, wakeup, last_wakeup,
                    last_periodic_wakeup, servos, attached, enable, now, out,
                    line, reply, recv, pc, ticks >>

Tick(d, max) ==
    /\ ticks < max
    /\ ticks' = ticks + 1
    /\ now' = Later(now, d)
    /\ UNCHANGED << buffer, buffer_offset, overflow_mode, wakeup, last_wakeup,
                    last_periodic_wakeup, servos, attached, enable, rx, out,
                    line, reply, recv, pc, sends >>

\* The state when setup() returns.
Init ==
    /\ buffer = [i \in 0 .. (SERIAL_BUFFER_SIZE - 1) |-> NUL]
    /\ buffer_offset = 0
    /\ overflow_mode = FALSE
    /\ wakeup = TRUE
    /\ last_wakeup = 0
    /\ last_periodic_wakeup = 0
    /\ servos = [i \in Slots |-> MAP_SERVO(0)]
    /\ attached = [i \in Slots |-> TRUE]
    /\ enable = TRUE
    /\ now = SETUP_DELAY
    /\ rx = << >>
    /\ out = << << "110 SERVO ON" >>,
                << "100 READY - " >> \o FormatInt(NUM_SERVOS) \o << " SERVOS" >> >>
    /\ line = << >>
    /\ reply = << >>
    /\ recv = [cur |-> << >>, done |-> << >>, resync |-> FALSE, quiet |-> 0,
               top |-> 0]
    /\ pc = "read_serial"
    /\ sends = 0
    /\ ticks = 0

\* The device has been idle since setup() and its clock is about to jump from
\* LONG_MAX to LONG_MIN, or to wrap from -1 to 0: the state at the end of an
\* iteration of loop() in which the periodic wakeup fired, WrapLead
\* milliseconds before.
InitWrap ==
    /\ buffer = [i \in 0 .. (SERIAL_BUFFER_SIZE - 1) |-> NUL]
    /\ buffer_offset = 0
    /\ overflow_mode = FALSE
    /\ wakeup = TRUE
    /\ now \in {LONG_MAX - WrapLead, -WrapLead}
    /\ last_wakeup = now
    /\ last_periodic_wakeup = now
    /\ servos = [i \in Slots |-> MAP_SERVO(0)]
    /\ attached = [i \in Slots |-> TRUE]
    /\ enable = TRUE
    /\ rx = << >>
    /\ out = << >>
    /\ line = << >>
    /\ reply = << >>
    /\ recv = [cur |-> << >>, done |-> << >>, resync |-> FALSE, quiet |-> 0,
               top |-> 0]
    /\ pc = "read_serial"
    /\ sends = 0
    /\ ticks = 0

(***************************************************************************)
(* What the client sends.                                                  *)
(***************************************************************************)
Text(s) == s \o << NL >>

Filler == [i \in 1 .. SERIAL_BUFFER_SIZE |-> "x"]

\* Enough bytes to fill the buffer, to run a whole read_serial() call in
\* overflow mode, and one byte more.
Flood == [i \in 1 .. (2 * SERIAL_BUFFER_SIZE + 1) |-> "x"]

\* Byte chunks for the line assembler and the interpreter.
Chunks ==
    { Text(<< "0", SP, "0" >>),
      Text(<< "3", SP, "1", "0", "0" >>),
      Text(<< "-", "1", SP, "5" >>),
      Text(<< "4", SP, "1", "0", "1" >>),
      Text(<< "0", SP, "1", "0", "1" >>),
      Text(<< "3", SP, "-", "1" >>),
      Text(<< "1", SP, "2", SP, "3" >>),
      Text(<< "x" >>),
      Text(<< >>),
      Text(<< "s" >>),
      << "1", SP >>,
      Filler,
      Flood }

\* Two lines in one burst: a slot is set, then the status is asked for.
Burst == Text(<< "0", SP, "1" >>) \o Text(<< "s" >>)

\* Three lines in one burst, refused with 502, 503 and 504.
Refused ==
    Text(<< "x" >>) \o Text(<< "9", SP, "9" >>) \o Text(<< "0", SP, "1", "0", "1" >>)

\* Command lines for the power controller.
Commands ==
    { Text(<< "w" >>),
      Text(<< "h" >>),
      Text(<< "s" >>),
      Text(<< "c" >>),
      Text(<< "2", SP, "5", "0" >>),
      Text(<< "a", SP, "1", "0", "0" >>),
      Text(<< "a", SP, "1", "0", "1" >>),
      Text(<< "a", SP, "-", "5" >>),
      Burst,
      Refused }

TickSteps == {1, WAKEUP_MILLIS, PERIODIC_WAKEUP_MILLIS}

Loop == ReadSerial \/ PeriodicWakeup \/ ServoWakeupTimeout

Next ==
    \/ \E c \in Commands : Receive(c, MaxCmds)
    \/ \E d \in TickSteps : Tick(d, MaxTicks)
    \/ ReadSerial
    \/ PeriodicWakeup
    \/ ServoWakeupTimeout

Spec == Init /\ [][Next]_vars

NextLine ==
    \/ \E c \in Chunks : Receive(c, MaxSends)
    \/ pc = "read_serial" /\ Tick(WAKEUP_MILLIS + 1, MaxLineTicks)
    \/ ReadSerial
    \/ PeriodicWakeup
    \/ ServoWakeupTimeout

SpecLine == Init /\ [][NextLine]_vars

SpecWrap == InitWrap /\ [][Next]_vars

(***************************************************************************)
(* Vocabulary of the properties.                                           *)
(***************************************************************************)
Range(f) == {f[i] : i \in DOMAIN f}

ServoOn == << "110 SERVO ON" >>

ServoOff == << "111 SERVO OFF" >>

\* this step is a call of read_serial()
ReadStep == pc = "read_serial" /\ pc' = "periodic_wakeup"

\* this step is a call of read_serial() that called parse_command
Called == ReadStep /\ reply' # << >>

\* this step called servo_wakeup(): awake, powered, attached, timestamp taken
Woken ==
    /\ wakeup'
    /\ enable'
    /\ \A i \in Slots : attached'[i]
    /\ last_wakeup' = now
    /\ ServoOn \in Range(out')

\* this step did not call servo_wakeup()
NotWoken ==
    /\ wakeup' = wakeup
    /\ enable' = enable
    /\ attached' = attached
    /\ last_wakeup' = last_wakeup
    /\ ServoOn \notin Range(out')

CommandChars == {"w", "h", "s", "c", "a"}

\* the line "<slot> <value>" as the client writes it
SetLine(slot, value) == FormatInt(slot) \o << SP >> \o FormatInt(value)

HasPrefix(s, p) == Len(s) >= Len(p) /\ SubSeq(s, 1, Len(p)) = p

C2_NoSpaceIs502 ==
    [][ ( /\ Called
          /\ SP \notin Range(line')
          /\ (line' = << >> \/ line'[1] \notin CommandChars) ) =>
        ( /\ reply' = << "502 SYNTAX ERROR" >>
          /\ servos' = servos ) ]_vars

(***************************************************************************)
(* C3: when a newline ends overflow mode the write offset is 0, and the    *)
(* next line handed to parse_command is exactly the bytes received after   *)
(* that newline.                                                           *)
(***************************************************************************)
C3_ResyncEmpty ==
    [][ /\ (overflow_mode /\ ~overflow_mode') => buffer_offset' = 0
        /\ (Called /\ recv.resync) => line' = recv'.done ]_vars

(***************************************************************************)
(* C4: every slot's commanded value is within [0,100]: the position        *)
(* written to each servo is the image of a value in that range.            *)
(***************************************************************************)
C4_ValuesInRange ==
    \A i \in Slots : \E v \in 0 .. 100 : servos[i] = MAP_SERVO(v)

(***************************************************************************)
(* C5: a line "<slot> <anything>" whose slot is outside [0, NUM_SERVOS-1]  *)
(* is answered "503 SERVO OUT OF RANGE", changes no slot and wakes         *)
(* nothing.                                                                *)
(***************************************************************************)
OutsideSlots == ((0 - 3) .. (NUM_SERVOS + 8)) \ Slots

C5_SlotRange ==
    [][ Called =>
        \A slot \in OutsideSlots :
            HasPrefix(line', FormatInt(slot) \o << SP >>) =>
                /\ reply' = << "503 SERVO OUT OF RANGE" >>
                /\ servos' = servos
                /\ NotWoken ]_vars

C5_Witness ==
    /\ pc = "periodic_wakeup"
    /\ line = << "4", SP, "1", "0", "1" >>
    /\ reply = << "503 SERVO OUT OF RANGE" >>
    /\ ~wakeup

(***************************************************************************)
(* C6: a line "<slot> <value>" with a valid slot and a value outside       *)
(* [0,100] is answered "504 VALUE OUT OF RANGE", changes no slot and wakes *)
(* nothing.                                                                *)
(***************************************************************************)
OutsideValues == ((0 - 3) .. (0 - 1)) \cup (101 .. 110)

C6_ValueRange ==
    [][ Called =>
        \A slot \in Slots, value \in OutsideValues :
            line' = SetLine(slot, value) =>
                /\ reply' = << "504 VALUE OUT OF RANGE" >>
                /\ servos' = servos
                /\ NotWoken ]_vars

C6_Witness ==
    /\ pc = "periodic_wakeup"
    /\ line = << "3", SP, "-", "1" >>
    /\ reply = << "504 VALUE OUT OF RANGE" >>
    /\ ~wakeup

(***************************************************************************)
(* C7: "a <n>" always answers "204 OK - ALL SERVOS SET"; for n <= 100      *)
(* every slot is set to n and the servos are woken, for n > 100 every slot *)
(* keeps its value.                                                        *)
(***************************************************************************)
SetAllValues == (0 - 5) .. 150

C7_SetAll ==
    [][ Called =>
        \A n \in SetAllValues :
            line' = << "a", SP >> \o FormatInt(n) =>
                /\ reply' = << "204 OK - ALL SERVOS SET" >>
                /\ IF n <= 100
                   THEN /\ servos' = [i \in Slots |-> MAP_SERVO(n)]
                        /\ Woken
                   ELSE servos' = servos ]_vars

C7_Witness ==
    /\ pc = "periodic_wakeup"
    /\ line = << "a", SP, "1", "0", "0" >>
    /\ reply = << "204 OK - ALL SERVOS SET" >>
    /\ \A i \in Slots : servos[i] = SERVO_MIN
    /\ last_wakeup = now
    /\ now > SETUP_DELAY

(***************************************************************************)
(* C8: in normal mode the call that reads the byte filling the buffer      *)
(* (SERIAL_BUFFER_SIZE bytes without a newline since the buffer was empty) *)
(* prints "501 OVERFLOW" once, resets the offset, enters overflow mode and *)
(* does not call parse_command, and no call prints it earlier; a newline   *)
(* read right after returns to normal mode with offset 0 and no output.    *)
(***************************************************************************)
C8_Overflow ==
    [][ /\ (ReadStep /\ ~overflow_mode) =>
            LET n == SERIAL_BUFFER_SIZE - buffer_offset
            IN  IF Len(rx) >= n /\ \A k \in 1 .. n : rx[k] # NL
                THEN /\ out' = << Overflow501 >>
                     /\ buffer_offset' = 0
                     /\ overflow_mode'
                     /\ reply' = << >>
                     /\ rx' = SubSeq(rx, n + 1, Len(rx))
                ELSE /\ Overflow501 \notin Range(out')
                     /\ ~overflow_mode'
        /\ ( /\ ReadStep
             /\ overflow_mode
             /\ buffer_offset = 0
             /\ rx # << >>
             /\ Head(rx) = NL ) =>
                /\ ~overflow_mode'
                /\ buffer_offset' = 0
                /\ out' = << >>
                /\ reply' = << >>
                /\ rx' = Tail(rx) ]_vars

C8_Witness ==
    /\ pc = "periodic_wakeup"
    /\ recv.cur = << >>
    /\ recv.done = Filler
    /\ recv.resync
    /\ ~overflow_mode
    /\ buffer_offset = 0
    /\ out = << >>
    /\ reply = << >>

(***************************************************************************)
(* C9: a step that triggers a wakeup leaves the controller awake; the      *)
(* first timeout poll that sees more than WAKEUP_MILLIS since the last     *)
(* wakeup switches it off once (enable low, every slot detached); other    *)
(* polls change nothing, and it stays asleep until the next trigger.       *)
(***************************************************************************)
C9_WakeThenSleep ==
    [][ /\ (pc' # pc /\ ServoOn \in Range(out')) => Woken
        /\ (pc = "servo_wakeup_timeout" /\ pc' = "read_serial") =>
            IF wakeup /\ (now - last_wakeup) > WAKEUP_MILLIS
            THEN /\ ~wakeup'
                 /\ ~enable'
                 /\ \A i \in Slots : ~attached'[i]
                 /\ out' = << ServoOff >>
                 /\ last_wakeup' = last_wakeup
            ELSE /\ NotWoken
                 /\ out' = << >>
        /\ (wakeup /\ ~wakeup') => pc = "servo_wakeup_timeout"
        /\ (~wakeup /\ ~(pc' # pc /\ ServoOn \in Range(out'))) =>
            /\ ~wakeup'
            /\ ~enable'
            /\ \A i \in Slots : ~attached'[i]
            /\ (pc' # pc => ServoOff \notin Range(out')) ]_vars

C9_Witness ==
    /\ pc = "read_serial"
    /\ ~wakeup
    /\ ~enable
    /\ \A i \in Slots : ~attached[i]
    /\ out = << ServoOff >>
    /\ last_wakeup = SETUP_DELAY + 1
    /\ now = last_wakeup + WAKEUP_MILLIS + 1

(***************************************************************************)
(* C10: periodic_wakeup() fires exactly when now - last_periodic_wakeup >  *)
(* PERIODIC_WAKEUP_MILLIS: it then wakes the servos once and sets          *)
(* last_periodic_wakeup to now, and otherwise does nothing; nothing else   *)
(* changes last_periodic_wakeup.                                           *)
(***************************************************************************)
C10_Periodic ==
    [][ /\ (pc = "periodic_wakeup" /\ pc' = "servo_wakeup_timeout") =>
            IF (now - last_periodic_wakeup) > PERIODIC_WAKEUP_MILLIS
            THEN /\ last_periodic_wakeup' = now
                 /\ Woken
                 /\ out' = << ServoOn, FormatInt(PERIODIC_WAKEUP_MILLIS) >>
            ELSE /\ last_periodic_wakeup' = last_periodic_wakeup
                 /\ NotWoken
        /\ (last_periodic_wakeup' # last_periodic_wakeup) =>
            pc = "periodic_wakeup" ]_vars

C10_Witness ==
    /\ pc = "servo_wakeup_timeout"
    /\ sends = 0
    /\ now = SETUP_DELAY + 2 * PERIODIC_WAKEUP_MILLIS + 1
    /\ last_periodic_wakeup = now
    /\ last_wakeup = now
    /\ wakeup

(***************************************************************************)
(* C11: in overflow mode, while no newline is read, no command is executed *)
(* and the mode is kept, and "501 OVERFLOW" is printed exactly by the call *)
(* that reads the SERIAL_BUFFER_SIZE-th byte since overflow mode began or  *)
(* since the last "501 OVERFLOW".                                          *)
(***************************************************************************)
C11_FloodNotices ==
    [][ (ReadStep /\ overflow_mode) =>
            LET k == Len(rx) - Len(rx')
            IN  /\ reply' = << >>
                /\ ~overflow_mode' => (k >= 1 /\ rx[k] = NL)
                /\ overflow_mode' =>
                    ( Overflow501 \in Range(out')
                        <=> recv.quiet + k = SERIAL_BUFFER_SIZE ) ]_vars

\* the command character of a line handed to parse_command (s[0])
CommandOf(l) == IF l = << >> THEN NUL ELSE l[1]

\* the line "102 <slot>:<value>"
Report(slot, value) ==
    << "102 " >> \o FormatInt(slot) \o << ":" >> \o FormatInt(value)

\* the lines of o that begin with the code 102
Reports(o) == SelectSeq(o, LAMBDA l : l # << >> /\ l[1] = "102 ")

(***************************************************************************)
(* C12, as claimed: a completed line other than "s" and "h" makes the      *)
(* controller print exactly one line, and "s" makes it print one line      *)
(* "102 <slot>:<value>" per slot, in slot order.                           *)
(***************************************************************************)
C12_OneLinePerCommand ==
    [][ Called =>
            /\ CommandOf(line') \notin {"s", "h"} => Len(out') = 1
            /\ CommandOf(line') = "s" =>
                /\ Len(Reports(out')) = NUM_SERVOS
                /\ \A k \in 1 .. NUM_SERVOS :
                       HasPrefix(Reports(out')[k],
                                 << "102 " >> \o FormatInt(k - 1) \o << ":" >>) ]_vars

(***************************************************************************)
(* C12, amended: a completed line other than "s" and "h" makes the         *)
(* controller print its reply, and "110 SERVO ON" before it when the       *)
(* command woke the servos; "s" makes it print one line                    *)
(* "102 <slot>:<value>" per slot, in slot order, and then "201 OK".        *)
(***************************************************************************)
C12_ReplyLines ==
    [][ Called =>
            /\ CommandOf(line') \notin {"s", "h"} =>
                \/ out' = << reply' >> /\ NotWoken
                \/ out' = << ServoOn, reply' >> /\ Woken
            /\ CommandOf(line') = "s" =>
                /\ reply' = << "201 OK" >>
                /\ out' = [k \in 1 .. NUM_SERVOS |->
                             Report(k - 1, MAP_SERVO_REVERSE(servos[k - 1]))]
                          \o << reply' >> ]_vars

\* "s" was answered: four reports and "201 OK"
C12_Witness ==
    /\ pc = "periodic_wakeup"
    /\ line = << "s" >>
    /\ Len(out) = NUM_SERVOS + 1
    /\ out[NUM_SERVOS] = Report(NUM_SERVOS - 1, 0)

(***************************************************************************)
(* C13: 0 is mapped to SERVO_MAX and 100 to SERVO_MIN, and when "s" is     *)
(* answered, every slot whose position is the one a value v in [0, 100]    *)
(* is mapped to (the slot was set to v) is reported as "102 <slot>:<v>".   *)
(***************************************************************************)
C13_RoundTrip ==
    [][ (Called /\ CommandOf(line') = "s") =>
            /\ MAP_SERVO(0) = SERVO_MAX
            /\ MAP_SERVO(100) = SERVO_MIN
            /\ \A i \in Slots : \A v \in 0 .. 100 :
                   servos[i] = MAP_SERVO(v) => Report(i, v) \in Range(out') ]_vars

(***************************************************************************)
(* C14, as claimed: a call of read_serial() consumes every byte that is    *)
(* available, so that nothing of a burst is left for a later iteration.    *)
(***************************************************************************)
C14_DrainsAll == [][ ReadStep => rx' = << >> ]_vars

(***************************************************************************)
(* C14, amended: a call of read_serial() consumes the available bytes in   *)
(* order, up to and including the first newline or the byte that makes it  *)
(* print "501 OVERFLOW", and leaves the rest for the next iteration; it    *)
(* answers a command exactly when it stopped at a newline read in normal   *)
(* mode.                                                                   *)
(***************************************************************************)
C14_OneLinePerCall ==
    [][ ReadStep =>
            LET k == Len(rx) - Len(rx')
            IN  /\ k >= 0
                /\ rx' = SubSeq(rx, k + 1, Len(rx))
                /\ \A j \in 1 .. (k - 1) : rx[j] # NL
                /\ rx' # << >> =>
                    /\ k >= 1
                    /\ rx[k] = NL \/ Overflow501 \in Range(out')
                /\ reply' # << >> <=> (k >= 1 /\ rx[k] = NL /\ ~overflow_mode) ]_vars

\* the first line of a burst was answered and the second is still unread
C14_Witness ==
    /\ pc = "periodic_wakeup"
    /\ line = << "0", SP, "1" >>
    /\ reply = OkReply(0, 1)
    /\ rx = Text(<< "s" >>)

(***************************************************************************)
(* C15: when servo_wakeup_timeout() returns with the servos awake, at most *)
(* WAKEUP_MILLIS milliseconds lie between last_wakeup and the clock value  *)
(* it read; it switches the servos off only when more than WAKEUP_MILLIS   *)
(* lie between them.                                                       *)
(***************************************************************************)
C15_AwakeWithinWindow ==
    [][ (pc = "servo_wakeup_timeout" /\ pc' = "read_serial") =>
            /\ wakeup' => (now - last_wakeup') <= WAKEUP_MILLIS
            /\ (wakeup /\ ~wakeup') => (now - last_wakeup) >= WAKEUP_MILLIS + 1
            /\ now' = now ]_vars

\* woken by a command at the end of setup(), switched off at the first
\* millisecond past the window
C15_Witness ==
    /\ pc = "read_serial"
    /\ ~wakeup
    /\ out = << ServoOff >>
    /\ last_wakeup = SETUP_DELAY
    /\ now - last_wakeup = WAKEUP_MILLIS + 1

(***************************************************************************)
(* C16: a wakeup of servos that are awake keeps them awake, powered and    *)
(* attached and sets last_wakeup to the current time; last_wakeup changes  *)
(* in no other way, so there is one deadline, counted from the latest      *)
(* wakeup; and the servos are switched off by one "111 SERVO OFF", more    *)
(* than WAKEUP_MILLIS milliseconds after last_wakeup.                      *)
(***************************************************************************)
C16_Retrigger ==
    [][ /\ (wakeup /\ pc' # pc /\ ServoOn \in Range(out')) =>
            /\ wakeup'
            /\ enable' = enable
            /\ attached' = attached
            /\ last_wakeup' = now
        /\ (last_wakeup' # last_wakeup) =>
            /\ pc' # pc
            /\ ServoOn \in Range(out')
            /\ last_wakeup' = now
        /\ (wakeup /\ ~wakeup') =>
            /\ now > last_wakeup + WAKEUP_MILLIS
            /\ out' = << ServoOff >> ]_vars

\* "w" arrived one millisecond after setup(), while the servos were awake
C16_Witness ==
    /\ pc = "periodic_wakeup"
    /\ wakeup
    /\ out = << ServoOn, << "206 WAKEUP OK" >> >>
    /\ last_wakeup = SETUP_DELAY + 1
    /\ now = last_wakeup

(***************************************************************************)
(* C18: buffer_offset is always in [0, SERIAL_BUFFER_SIZE - 1], and so is  *)
(* every offset a byte was ever stored at, in normal and in overflow mode; *)
(* the buffer keeps its SERIAL_BUFFER_SIZE cells.                          *)
(***************************************************************************)
C18_OffsetInBuffer ==
    /\ buffer_offset \in 0 .. (SERIAL_BUFFER_SIZE - 1)
    /\ recv.top \in 0 .. (SERIAL_BUFFER_SIZE - 1)
    /\ DOMAIN buffer = 0 .. (SERIAL_BUFFER_SIZE - 1)

\* in overflow mode, a byte was stored in the last cell of the buffer and the
\* offset still points at it
C18_Witness ==
    /\ overflow_mode
    /\ recv.top = SERIAL_BUFFER_SIZE - 1
    /\ buffer_offset = SERIAL_BUFFER_SIZE - 1
    /\ recv.quiet = 0

(***************************************************************************)
(* C19: from the return of setup() on, the wakeup flag is set exactly when *)
(* the enable pin is high, and exactly when every servo is attached; when  *)
(* it is not set, every servo is detached.                                 *)
(***************************************************************************)
C19_PowerAgrees ==
    /\ wakeup <=> enable
    /\ wakeup <=> (\A i \in Slots : attached[i])
    /\ ~wakeup <=> (\A i \in Slots : ~attached[i])

\* asleep again after a periodic wakeup
C19_Witness ==
    /\ ~wakeup
    /\ ~enable
    /\ \A i \in Slots : ~attached[i]
    /\ last_periodic_wakeup > PERIODIC_WAKEUP_MILLIS
    /\ last_wakeup = last_periodic_wakeup

\* the milliseconds between two readings of the clock, last and then t, with
\* at most one jump of the reading between them
Elapsed(t, last) ==
    IF t >= last THEN t - last ELSE ((t - LONG_MIN) + (LONG_MAX - last)) + 1

(***************************************************************************)
(* C17: around a wrap of the timestamps, servo_wakeup_timeout() switches   *)
(* the servos off exactly when more than WAKEUP_MILLIS milliseconds have   *)
(* elapsed since last_wakeup, and periodic_wakeup() fires exactly when     *)
(* more than PERIODIC_WAKEUP_MILLIS have elapsed since                     *)
(* last_periodic_wakeup.                                                   *)
(***************************************************************************)
C17_WrapSafe ==
    [][ /\ (pc = "servo_wakeup_timeout" /\ pc' = "read_serial" /\ wakeup) =>
            (~wakeup' <=> Elapsed(now, last_wakeup) > WAKEUP_MILLIS)
        /\ (pc = "periodic_wakeup" /\ pc' = "servo_wakeup_timeout") =>
            ( FormatInt(PERIODIC_WAKEUP_MILLIS) \in Range(out')
                <=> Elapsed(now, last_periodic_wakeup) > PERIODIC_WAKEUP_MILLIS ) ]_vars

\* the replies of the lines that parse_command refuses
Refusals ==
    { << "502 SYNTAX ERROR" >>,
      << "503 SERVO OUT OF RANGE" >>,
      << "504 VALUE OUT OF RANGE" >> }

\* the line "a <n>" with n above 100
SetAllAbove100(l) == \E n \in 101 .. 109 : l = << "a", SP >> \o FormatInt(n)

(***************************************************************************)
(* C20: a command "h" or "s", a line answered with 502, 503 or 504, and    *)
(* "a <n>" with n > 100 leave the wakeup flag, the enable pin, the         *)
(* attachment of the servos, last_wakeup and the positions as they were;   *)
(* no call of read_serial() changes last_periodic_wakeup.                  *)
(***************************************************************************)
C20_NoMoveNoPower ==
    [][ /\ ( /\ Called
             /\ \/ CommandOf(line') \in {"h", "s"}
                \/ reply' \in Refusals
                \/ SetAllAbove100(line') ) =>
            /\ wakeup' = wakeup
            /\ enable' = enable
            /\ attached' = attached
            /\ last_wakeup' = last_wakeup
            /\ servos' = servos
        /\ ReadStep => last_periodic_wakeup' = last_periodic_wakeup ]_vars

\* a line was refused with 504 while the servos were asleep, and they still are
C20_Witness ==
    /\ pc = "periodic_wakeup"
    /\ reply = << "504 VALUE OUT OF RANGE" >>
    /\ out = << reply >>
    /\ ~wakeup
    /\ ~enable

=============================================================================
